---- MODULE Spec2Model ----
(***************************************************************************)
(* Passport Synergy: the scoring library (lib/scoring.ts), the raw-record  *)
(* normalizer (lib/data.ts) and the selection store (stores/appStore.ts).  *)
(*                                                                         *)
(* Strings are sequences of one-character strings, so that toLowerCase,    *)
(* includes, trim and split are computed character by character.           *)
(* Sub-scores are kept in units of 1/Unit (quarters), the finest grain the *)
(* code's divisions produce, so that every value is an exact integer.      *)
(***************************************************************************)
EXTENDS Integers, Sequences, FiniteSets, TLC

VARIABLES
    pc,         \* position of the driver of the specification in use
    a,          \* first argument of calculateSynergy (the primary)
    b,          \* second argument of calculateSynergy (the candidate)
    result,     \* the SynergyScore returned by calculateSynergy(a, b)
    sub,        \* the unrounded sub-scores computed inside calculateSynergy
    raw,        \* the raw data-set record that a was normalized from
    countries,  \* the registry: lib/data.ts's countries array
    primary,    \* the country passed to getTopSynergies
    limit,      \* the limit passed to getTopSynergies
    ranked,     \* the list returned by getTopSynergies(primary, limit)
    allSynergies, \* the Map returned by getAllSynergies(primary)
    passports,  \* the selection passed to getCombinedVisaAccess
    combined,   \* the value returned by getCombinedVisaAccess(passports)
    query,      \* the string passed to findCountry
    found,      \* the value returned by findCountry(query)
    dataJson,   \* the raw data set the registry is built from
    selectedPassports,  \* the store: selected passports (max 3)
    hoveredCountry,     \* the store: country hovered on the globe, or null
    synergies,          \* the store: Map of ISO3 to SynergyScore
    topSynergies,       \* the store: ranked list for the primary
    combinedVisaAccess, \* the store: { total, newlyUnlocked }
    isLoading,          \* the store: UI flag
    showInfoPanel       \* the store: UI flag

pairVars == <<a, b, result, sub, raw>>

rankVars == <<countries, primary, limit, ranked, allSynergies>>

visaVars == <<passports, combined>>

findVars == <<query, found>>

loadVars == <<dataJson>>

storeVars == <<selectedPassports, hoveredCountry, synergies, topSynergies,
               combinedVisaAccess, isLoading, showInfoPanel>>

vars == <<pc, a, b, result, sub, raw, countries, primary, limit, ranked,
          allSynergies, passports, combined, query, found, dataJson,
          selectedPassports, hoveredCountry, synergies, topSynergies,
          combinedVisaAccess, isLoading, showInfoPanel>>

----------------------------------------------------------------------------
(* Strings *)

UpperLetters ==
    <<"A","B","C","D","E","F","G","H","I","J","K","L","M",
      "N","O","P","Q","R","S","T","U","V","W","X","Y","Z">>

LowerLetters ==
    <<"a","b","c","d","e","f","g","h","i","j","k","l","m",
      "n","o","p","q","r","s","t","u","v","w","x","y","z">>

Range(s) == { s[i] : i \in DOMAIN s }

Min(x, y) == IF x <= y THEN x ELSE y

Max(x, y) == IF x >= y THEN x ELSE y

Abs(x) == IF x < 0 THEN -x ELSE x

\* String.prototype.toLowerCase on one character.
LowerChar(c) ==
    IF \E i \in DOMAIN UpperLetters : UpperLetters[i] = c
    THEN LowerLetters[CHOOSE i \in DOMAIN UpperLetters : UpperLetters[i] = c]
    ELSE c

\* String.prototype.toLowerCase.
toLowerCase(s) == [i \in DOMAIN s |-> LowerChar(s[i])]

\* String.prototype.toUpperCase on one character.
UpperChar(c) ==
    IF \E i \in DOMAIN LowerLetters : LowerLetters[i] = c
    THEN UpperLetters[CHOOSE i \in DOMAIN LowerLetters : LowerLetters[i] = c]
    ELSE c

\* String.prototype.toUpperCase.
toUpperCase(s) == [i \in DOMAIN s |-> UpperChar(s[i])]

\* String.prototype.includes: needle occurs in hay as a contiguous substring.
includes(hay, needle) ==
    \E k \in 0..(Len(hay) - Len(needle)) :
        \A i \in 1..Len(needle) : hay[k + i] = needle[i]

SetMin(S) == CHOOSE x \in S : \A y \in S : x <= y

SetMax(S) == CHOOSE x \in S : \A y \in S : x >= y

Whitespace == {" ", "\t", "\n", "\r"}

\* String.prototype.trim: drops the white space at both ends.
trim(s) ==
    LET solid == { i \in DOMAIN s : s[i] \notin Whitespace }
    IN  IF solid = {} THEN <<>> ELSE SubSeq(s, SetMin(solid), SetMax(solid))

\* String.prototype.split on a one-character separator.
RECURSIVE split(_, _)
split(s, sep) ==
    LET at == { i \in DOMAIN s : s[i] = sep }
    IN  IF at = {} THEN <<s>>
        ELSE <<SubSeq(s, 1, SetMin(at) - 1)>>
                 \o split(SubSeq(s, SetMin(at) + 1, Len(s)), sep)

\* list.map((c) => c.trim())
trimAll(list) == [i \in DOMAIN list |-> trim(list[i])]

\* list.filter(Boolean) on strings: the empty string is dropped.
filterNonEmpty(list) == SelectSeq(list, LAMBDA c : c # <<>>)

Digits == <<"0","1","2","3","4","5","6","7","8","9">>

\* The decimal text of a natural number, as a template literal prints it.
RECURSIVE ToDecimal(_)
ToDecimal(n) ==
    IF n < 10 THEN <<Digits[n + 1]>>
    ELSE ToDecimal(n \div 10) \o <<Digits[(n % 10) + 1]>>

----------------------------------------------------------------------------
(* Nullable strings (string | null) *)

Null == [isNull |-> TRUE, str |-> <<>>]

Some(s) == [isNull |-> FALSE, str |-> s]

\* JavaScript truthiness of a string | null value: null and "" are falsy.
Truthy(v) == ~v.isNull /\ v.str # <<>>

----------------------------------------------------------------------------
(* DualCitizenshipStatus: the four shapes of the tagged union *)

Allowed == [allowed |-> "true", conditional |-> FALSE]

AllowedConditional(list) ==
    [allowed |-> "true", conditional |-> TRUE, withCountries |-> list]

Disallowed == [allowed |-> "false"]

Uncertain == [allowed |-> "null", uncertain |-> TRUE]

\* 'conditional' in d && d.conditional
isConditional(d) == "conditional" \in DOMAIN d /\ d.conditional

----------------------------------------------------------------------------
(* lib/scoring.ts *)

maxPossible == 200

\* Sub-scores are held as multiples of 1/Unit: totalCombined / maxPossible * 50
\* is a multiple of 50/maxPossible = 1/4.
Unit == maxPossible \div 50

\* The match with its direction exchanged: the entry inside the name.
namedIn_entryInsideName(withCountries, name) ==
    \E i \in DOMAIN withCountries :
        includes(toLowerCase(name), toLowerCase(withCountries[i]))

\* withCountries.some((c) => c.toLowerCase().includes(name.toLowerCase()))
namedIn(withCountries, name) ==
    \E i \in DOMAIN withCountries :
        includes(toLowerCase(withCountries[i]), toLowerCase(name))

allowsDual_null_ok(country) == country.dualCitizenship.allowed # "false"

allowsDual(country) == country.dualCitizenship.allowed = "true"

canPair_firstSideOnly(x, y) ==
    IF ~allowsDual(x) \/ ~allowsDual(y) THEN FALSE
    ELSE IF isConditional(x.dualCitizenship)
            /\ ~namedIn(x.dualCitizenship.withCountries, y.name)
         THEN FALSE
    ELSE TRUE

canPair(x, y) ==
    IF ~allowsDual(x) \/ ~allowsDual(y) THEN FALSE
    ELSE IF isConditional(x.dualCitizenship)
            /\ ~namedIn(x.dualCitizenship.withCountries, y.name)
         THEN FALSE
    ELSE IF isConditional(y.dualCitizenship)
            /\ ~namedIn(y.dualCitizenship.withCountries, x.name)
         THEN FALSE
    ELSE TRUE

\* new Set(list.map((c) => c.toLowerCase()))
LowerSet(list) == { toLowerCase(list[i]) : i \in DOMAIN list }

\* The arithmetic of calculateVisaExpansion once both sides have data, in 1/Unit.
visaExpansionScore(newFromB, totalCombined) ==
    LET expansionScore == Min(50 * Unit, ((newFromB * Unit) * 50) \div 50)
        coverageScore  == (totalCombined * 50 * Unit) \div maxPossible
    IN  Min(100 * Unit, expansionScore + coverageScore)

calculateVisaExpansion_bothEmptyOnly(x, y) ==
    LET aAccess == LowerSet(x.visaFreeAccess)
        bAccess == LowerSet(y.visaFreeAccess)
    IN  IF Cardinality(aAccess) = 0 /\ Cardinality(bAccess) = 0
        THEN [score |-> 50 * Unit, hasData |-> FALSE]
        ELSE [score |-> visaExpansionScore(Cardinality(bAccess \ aAccess),
                                           Cardinality(aAccess \cup bAccess)),
              hasData |-> TRUE]

calculateVisaExpansion(x, y) ==
    LET aAccess == LowerSet(x.visaFreeAccess)
        bAccess == LowerSet(y.visaFreeAccess)
    IN  IF Cardinality(aAccess) = 0 /\ Cardinality(bAccess) = 0
        THEN [score |-> 50 * Unit, hasData |-> FALSE]
        ELSE IF Cardinality(aAccess) = 0
        THEN [score |-> 50 * Unit, hasData |-> FALSE]
        ELSE IF Cardinality(bAccess) = 0
        THEN [score |-> 50 * Unit, hasData |-> FALSE]
        ELSE LET newFromB      == Cardinality(bAccess \ aAccess)
                 totalCombined == Cardinality(aAccess \cup bAccess)
             IN  [score |-> visaExpansionScore(newFromB, totalCombined),
                  hasData |-> TRUE]

calculateLegalClarity_overriddenAsUncertain(x, y) ==
    LET s0 == 100
        s1 == IF isConditional(x.dualCitizenship) THEN s0 - 20 ELSE s0
        s2 == IF isConditional(y.dualCitizenship) THEN s1 - 20 ELSE s1
        s3 == IF x.dataQuality = "uncertain" THEN s2 - 25 ELSE s2
        s4 == IF y.dataQuality = "uncertain" THEN s3 - 25 ELSE s3
        s5 == IF x.dataQuality = "overridden" THEN s4 - 25 ELSE s4
        s6 == IF y.dataQuality = "overridden" THEN s5 - 25 ELSE s5
    IN  Max(0, s6) * Unit

calculateLegalClarity(x, y) ==
    LET s0 == 100
        s1 == IF isConditional(x.dualCitizenship) THEN s0 - 20 ELSE s0
        s2 == IF isConditional(y.dualCitizenship) THEN s1 - 20 ELSE s1
        s3 == IF x.dataQuality = "uncertain" THEN s2 - 25 ELSE s2
        s4 == IF y.dataQuality = "uncertain" THEN s3 - 25 ELSE s3
        s5 == IF x.dataQuality = "overridden" THEN s4 - 5 ELSE s4
        s6 == IF y.dataQuality = "overridden" THEN s5 - 5 ELSE s5
    IN  Max(0, s6) * Unit

calculateGeoDiversity_same40(x, y) ==
    IF x.worldRegion = y.worldRegion
    THEN 40 * Unit
    ELSE 50 * Unit + (Abs(x.worldRegion - y.worldRegion) * 50 * Unit) \div 5

calculateGeoDiversity(x, y) ==
    IF x.worldRegion = y.worldRegion
    THEN 30 * Unit
    ELSE LET regionDiff == Abs(x.worldRegion - y.worldRegion)
         IN  50 * Unit + (regionDiff * 50 * Unit) \div 5

\* legalDocuments.some((d) => d.url)
hasUrls(legalDocuments) == \E i \in DOMAIN legalDocuments : Truthy(legalDocuments[i].url)

calculateDataConfidence_notCapped(x, y) ==
    LET s0 == 100
        s1 == IF x.dataQuality = "uncertain" THEN s0 - 40
              ELSE IF x.dataQuality = "overridden" THEN s0 - 10 ELSE s0
        s2 == IF y.dataQuality = "uncertain" THEN s1 - 40
              ELSE IF y.dataQuality = "overridden" THEN s1 - 10 ELSE s1
        s3 == IF Len(x.visaFreeAccess) > 0 THEN s2 + 5 ELSE s2
        s4 == IF Len(y.visaFreeAccess) > 0 THEN s3 + 5 ELSE s3
        s5 == IF hasUrls(x.legalDocuments) THEN s4 + 5 ELSE s4
        s6 == IF hasUrls(y.legalDocuments) THEN s5 + 5 ELSE s5
    IN  Max(0, s6) * Unit

calculateDataConfidence(x, y) ==
    LET s0 == 100
        s1 == IF x.dataQuality = "uncertain" THEN s0 - 40
              ELSE IF x.dataQuality = "overridden" THEN s0 - 10 ELSE s0
        s2 == IF y.dataQuality = "uncertain" THEN s1 - 40
              ELSE IF y.dataQuality = "overridden" THEN s1 - 10 ELSE s1
        s3 == IF Len(x.visaFreeAccess) > 0 THEN s2 + 5 ELSE s2
        s4 == IF Len(y.visaFreeAccess) > 0 THEN s3 + 5 ELSE s3
        aHasUrls == hasUrls(x.legalDocuments)
        bHasUrls == hasUrls(y.legalDocuments)
        s5 == IF aHasUrls THEN s4 + 5 ELSE s4
        s6 == IF bHasUrls THEN s5 + 5 ELSE s5
    IN  Min(100, Max(0, s6)) * Unit

\* Math.round of q/d for d > 0: the nearest integer, halves rounded up.
Round(q, d) == (2 * q + d) \div (2 * d)

DoesNotAllow ==
    <<" ","d","o","e","s"," ","n","o","t"," ","a","l","l","o","w"," ",
      "d","u","a","l"," ","c","i","t","i","z","e","n","s","h","i","p">>

ConditionalReason ==
    <<"C","o","n","d","i","t","i","o","n","a","l"," ",
      "r","e","s","t","r","i","c","t","i","o","n","s"," ",
      "p","r","e","v","e","n","t"," ","t","h","i","s"," ",
      "p","a","i","r","i","n","g">>

ZeroBreakdown ==
    [visaExpansion |-> 0, legalClarity |-> 0, geoDiversity |-> 0, dataConfidence |-> 0]

Incompatible(reason) ==
    [score |-> 0, breakdown |-> ZeroBreakdown, compatible |-> FALSE, reason |-> reason]

\* The four unrounded component scores (in 1/Unit) and the data flag,
\* as calculateSynergy computes them once the pair has passed the gate.
components(x, y) ==
    LET visaResult == calculateVisaExpansion(x, y)
    IN  [visa           |-> visaResult.score,
         hasData        |-> visaResult.hasData,
         legalClarity   |-> calculateLegalClarity(x, y),
         geoDiversity   |-> calculateGeoDiversity(x, y),
         dataConfidence |-> calculateDataConfidence(x, y)]

weighted_sameWeights(c) ==
    c.visa * 4 + c.legalClarity * 3 + c.geoDiversity * 2 + c.dataConfidence * 1

\* The weighted sum, in 1/(10 * Unit): the weights are tenths.
weighted(c) ==
    IF c.hasData
    THEN c.visa * 4 + c.legalClarity * 3 + c.geoDiversity * 2 + c.dataConfidence * 1
    ELSE c.visa * 2 + c.legalClarity * 4 + c.geoDiversity * 3 + c.dataConfidence * 1

calculateSynergy_candidateFirst(x, y) ==
    IF ~allowsDual(y) THEN Incompatible(y.name \o DoesNotAllow)
    ELSE IF ~allowsDual(x) THEN Incompatible(x.name \o DoesNotAllow)
    ELSE IF ~canPair(x, y) THEN Incompatible(ConditionalReason)
    ELSE LET c == components(x, y)
         IN  [score |-> Round(weighted(c), 10 * Unit),
              breakdown |->
                  [visaExpansion  |-> Round(c.visa, Unit),
                   legalClarity   |-> Round(c.legalClarity, Unit),
                   geoDiversity   |-> Round(c.geoDiversity, Unit),
                   dataConfidence |-> Round(c.dataConfidence, Unit)],
              compatible |-> TRUE]

calculateSynergy(x, y) ==
    IF ~allowsDual(x) THEN Incompatible(x.name \o DoesNotAllow)
    ELSE IF ~allowsDual(y) THEN Incompatible(y.name \o DoesNotAllow)
    ELSE IF ~canPair(x, y) THEN Incompatible(ConditionalReason)
    ELSE LET c == components(x, y)
         IN  [score |-> Round(weighted(c), 10 * Unit),
              breakdown |->
                  [visaExpansion  |-> Round(c.visa, Unit),
                   legalClarity   |-> Round(c.legalClarity, Unit),
                   geoDiversity   |-> Round(c.geoDiversity, Unit),
                   dataConfidence |-> Round(c.dataConfidence, Unit)],
              compatible |-> TRUE]

\* Map.prototype.set.
mapSet(m, key, value) == (key :> value) @@ m

EmptyMap == [k \in {} |-> <<>>]

\* { ...c, synergy }
withSynergy(c, synergy) ==
    [f \in DOMAIN c \cup {"synergy"} |-> IF f = "synergy" THEN synergy ELSE c[f]]

\* Array.prototype.filter with the predicates getTopSynergies uses.
excludeSelf(list, iso3) == SelectSeq(list, LAMBDA c : c.iso3 # iso3)

onlyCompatible(list) == SelectSeq(list, LAMBDA c : c.synergy.compatible)

\* One step of a stable sort with the comparator b.synergy.score - a.synergy.score:
\* x goes after every element whose score is at least its own.
insertByScore(sorted, x) ==
    LET ahead == { i \in DOMAIN sorted : sorted[i].synergy.score >= x.synergy.score }
        k     == IF ahead = {} THEN 0 ELSE SetMax(ahead)
    IN  SubSeq(sorted, 1, k) \o <<x>> \o SubSeq(sorted, k + 1, Len(sorted))

\* Array.prototype.sort((a, b) => b.synergy.score - a.synergy.score): stable, descending.
RECURSIVE sortByScore(_)
sortByScore(list) ==
    IF list = <<>> THEN <<>>
    ELSE insertByScore(sortByScore(SubSeq(list, 1, Len(list) - 1)), list[Len(list)])

\* Array.prototype.slice(0, end) for an integer end.
slice0(list, end) ==
    LET to == IF end < 0 THEN Max(Len(list) + end, 0) ELSE Min(end, Len(list))
    IN  SubSeq(list, 1, to)

getTopSynergies_noCompatibleFilter(registry, country, lim) ==
    LET others == excludeSelf(registry, country.iso3)
        scored == [i \in DOMAIN others |->
                      withSynergy(others[i], calculateSynergy(country, others[i]))]
    IN  slice0(sortByScore(scored), lim)

\* getTopSynergies(country, limit) over the registry.
getTopSynergies(registry, country, lim) ==
    LET others    == excludeSelf(registry, country.iso3)
        scored    == [i \in DOMAIN others |->
                         withSynergy(others[i], calculateSynergy(country, others[i]))]
        entries == sortByScore(onlyCompatible(scored))
    IN  slice0(entries, lim)


RECURSIVE getAllSynergies_compatibleOnly(_, _)
getAllSynergies_compatibleOnly(registry, country) ==
    IF registry = <<>> THEN EmptyMap
    ELSE LET other     == registry[Len(registry)]
             entries == getAllSynergies_compatibleOnly(
                              SubSeq(registry, 1, Len(registry) - 1), country)
         IN  IF other.iso3 # country.iso3 /\ calculateSynergy(country, other).compatible
             THEN mapSet(entries, other.iso3, calculateSynergy(country, other))
             ELSE entries

\* getAllSynergies(country) over the registry: the loop's Map after the last
\* country of the registry, from the Map after the countries before it.
RECURSIVE getAllSynergies(_, _)
getAllSynergies(registry, country) ==
    IF registry = <<>> THEN EmptyMap
    ELSE LET other     == registry[Len(registry)]
             entries == getAllSynergies(SubSeq(registry, 1, Len(registry) - 1), country)
         IN  IF other.iso3 # country.iso3
             THEN mapSet(entries, other.iso3, calculateSynergy(country, other))
             ELSE entries

RECURSIVE additionalPassport_caseSensitive(_, _)
additionalPassport_caseSensitive(total, visaFreeAccess) ==
    IF visaFreeAccess = <<>> THEN [total |-> total, newCountries |-> <<>>]
    ELSE LET head  == visaFreeAccess[1]
             isNew == head \notin total
             rest  == additionalPassport_caseSensitive(
                          IF isNew THEN total \cup {toLowerCase(head)} ELSE total,
                          Tail(visaFreeAccess))
         IN  [total |-> rest.total,
              newCountries |-> IF isNew THEN <<head>> \o rest.newCountries
                                        ELSE rest.newCountries]

\* The inner loop over one additional passport's destinations.
RECURSIVE additionalPassport(_, _)
additionalPassport(total, visaFreeAccess) ==
    IF visaFreeAccess = <<>> THEN [total |-> total, newCountries |-> <<>>]
    ELSE LET head  == visaFreeAccess[1]
             lower == toLowerCase(head)
             isNew == lower \notin total
             rest  == additionalPassport(IF isNew THEN total \cup {lower} ELSE total,
                                         Tail(visaFreeAccess))
         IN  [total |-> rest.total,
              newCountries |-> IF isNew THEN <<head>> \o rest.newCountries
                                        ELSE rest.newCountries]

firstPassport_deduped(first) ==
    additionalPassport({}, first.visaFreeAccess)

firstPassport_rawCase(first) ==
    [total |-> { first.visaFreeAccess[i] : i \in DOMAIN first.visaFreeAccess },
     newCountries |-> first.visaFreeAccess]

\* The first passport: total seeded with its lower-cased destinations, its whole
\* list recorded as newly unlocked.
firstPassport(first) ==
    [total |-> { toLowerCase(first.visaFreeAccess[i]) : i \in DOMAIN first.visaFreeAccess },
     newCountries |-> first.visaFreeAccess]

\* The outer loop, from passport i on.
RECURSIVE additionalPassports(_, _, _)
additionalPassports(acc, list, i) ==
    IF i > Len(list) THEN acc
    ELSE LET passport == list[i]
             step     == additionalPassport(acc.total, passport.visaFreeAccess)
         IN  additionalPassports(
                 [total |-> step.total,
                  byPassport |-> mapSet(acc.byPassport, passport.iso3, passport.visaFreeAccess),
                  newlyUnlocked |-> mapSet(acc.newlyUnlocked, passport.iso3, step.newCountries)],
                 list, i + 1)

getCombinedVisaAccess(list) ==
    LET empty == [total |-> {}, byPassport |-> EmptyMap, newlyUnlocked |-> EmptyMap]
        seeded ==
            IF Len(list) > 0
            THEN LET first == list[1]
                     seed  == firstPassport(first)
                 IN  [total |-> seed.total,
                      byPassport |-> mapSet(EmptyMap, first.iso3, first.visaFreeAccess),
                      newlyUnlocked |-> mapSet(EmptyMap, first.iso3, seed.newCountries)]
            ELSE empty
    IN  additionalPassports(seeded, list, 2)

----------------------------------------------------------------------------
(* lib/data.ts *)

defaultYear == 2020

Yes == <<"y","e","s">>

No == <<"n","o">>

NoButYesWith == <<"n","o",","," ","b","u","t"," ","y","e","s"," ","w","i","t","h">>

NoButYesWithNoComma == <<"n","o"," ","b","u","t"," ","y","e","s"," ","w","i","t","h">>

Unknown == <<"?","?","?">>

Overrid == <<"o","v","e","r","r","i","d">>

Overrrid == <<"o","v","e","r","r","r","i","d">>

DocumentPrefix == <<"D","o","c","u","m","e","n","t"," ">>

parseDualCitizenshipStatus_caseSensitive(allows_dual, column1) ==
    LET normalized == trim(allows_dual)
    IN  IF normalized = Yes THEN Allowed
        ELSE IF normalized = No THEN Disallowed
        ELSE IF includes(normalized, NoButYesWith)
                \/ includes(normalized, NoButYesWithNoComma)
        THEN AllowedConditional(
                 IF Truthy(column1)
                 THEN filterNonEmpty(trimAll(split(column1.str, ",")))
                 ELSE <<>>)
        ELSE Uncertain

parseDualCitizenshipStatus_entriesNotTrimmed(allows_dual, column1) ==
    LET normalized == toLowerCase(trim(allows_dual))
    IN  IF normalized = Yes THEN Allowed
        ELSE IF normalized = No THEN Disallowed
        ELSE IF includes(normalized, NoButYesWith)
                \/ includes(normalized, NoButYesWithNoComma)
        THEN AllowedConditional(
                 IF Truthy(column1)
                 THEN filterNonEmpty(split(column1.str, ","))
                 ELSE <<>>)
        ELSE Uncertain

parseDualCitizenshipStatus(allows_dual, column1) ==
    LET normalized == toLowerCase(trim(allows_dual))
    IN  IF normalized = Yes THEN Allowed
        ELSE IF normalized = No THEN Disallowed
        ELSE IF includes(normalized, NoButYesWith)
                \/ includes(normalized, NoButYesWithNoComma)
        THEN LET partners ==
                     IF Truthy(column1)
                     THEN filterNonEmpty(trimAll(split(column1.str, ",")))
                     ELSE <<>>
             IN  AllowedConditional(partners)
        ELSE IF normalized = Unknown \/ normalized = <<>> THEN Uncertain
        ELSE Uncertain

parseDataQuality_notTrimmed(status) ==
    IF ~Truthy(status) THEN "verified"
    ELSE LET normalized == toLowerCase(status.str)
         IN  IF includes(normalized, Overrid) \/ includes(normalized, Overrrid)
             THEN "overridden"
             ELSE IF normalized = Unknown THEN "uncertain"
             ELSE "verified"

parseDataQuality_defaultUncertain(status) ==
    IF ~Truthy(status) THEN "verified"
    ELSE LET normalized == toLowerCase(trim(status.str))
         IN  IF includes(normalized, Overrid) \/ includes(normalized, Overrrid)
             THEN "overridden"
             ELSE IF normalized = Unknown THEN "uncertain"
             ELSE "uncertain"

parseDataQuality(status) ==
    IF ~Truthy(status) THEN "verified"
    ELSE LET normalized == toLowerCase(trim(status.str))
         IN  IF includes(normalized, Overrid) \/ includes(normalized, Overrrid)
             THEN "overridden"
             ELSE IF normalized = Unknown THEN "uncertain"
             ELSE "verified"

parseLegalDocuments_zeroBased(urls, documents) ==
    LET maxLength == Max(Len(urls), Len(documents))
    IN  [i \in 1..maxLength |->
            [title |-> IF i <= Len(documents) /\ documents[i] # <<>>
                       THEN documents[i]
                       ELSE DocumentPrefix \o ToDecimal(i - 1),
             url   |-> IF i <= Len(urls) /\ Truthy(urls[i]) THEN urls[i] ELSE Null]]

parseLegalDocuments(urls, documents) ==
    LET maxLength == Max(Len(urls), Len(documents))
    IN  [i \in 1..maxLength |->
            [title |-> IF i <= Len(documents) /\ documents[i] # <<>>
                       THEN documents[i]
                       ELSE DocumentPrefix \o ToDecimal(i),
             url   |-> IF i <= Len(urls) /\ Truthy(urls[i]) THEN urls[i] ELSE Null]]

\* regionName is left out: its table, REGION_NAMES, feeds no computation here.
normalizeCountry(r) ==
    [iso3 |-> r.ISO3,
     iso2 |-> r.ISO2,
     name |-> r.country,
     countryCode |-> r.country_code,
     worldRegion |-> r.world_region,
     dualCitizenship |-> parseDualCitizenshipStatus(r.Allows_dual, r.Column1),
     dataQuality |-> parseDataQuality(r.Status),
     dataYear |-> IF r.Year # 0 THEN r.Year ELSE defaultYear,
     comment |-> r.Comment,
     legalDocuments |-> parseLegalDocuments(r.urls, r.documents),
     visaFreeAccess |-> IF r.visaFreeAccess.present THEN r.visaFreeAccess.list ELSE <<>>]

\* countries = dataJson.map(normalizeCountry): every record is kept, in order.
loadCountries(data) == [i \in DOMAIN data |-> normalizeCountry(data[i])]

\* What Map.prototype.get and Array.prototype.find return for no entry.
Undefined == [undefined |-> TRUE]

\* new Map(entries), entries being [key, value] pairs: a later pair replaces an
\* earlier one of the same key.
newMap(entries) ==
    [k \in { entries[i][1] : i \in DOMAIN entries } |->
        LET last == SetMax({ i \in DOMAIN entries : entries[i][1] = k })
        IN  entries[last][2]]

\* Map.prototype.get.
mapGet(m, key) == IF key \in DOMAIN m THEN m[key] ELSE Undefined

countriesByIso3(registry) ==
    newMap([i \in DOMAIN registry |-> <<registry[i].iso3, registry[i]>>])

countriesByIso2(registry) ==
    newMap([i \in DOMAIN registry |-> <<registry[i].iso2, registry[i]>>])

countriesByName(registry) ==
    newMap([i \in DOMAIN registry |-> <<toLowerCase(registry[i].name), registry[i]>>])

\* countries.find((c) => c.name.toLowerCase().includes(lower))
findByNamePart(registry, lower) ==
    LET hits == { i \in DOMAIN registry : includes(toLowerCase(registry[i].name), lower) }
    IN  IF hits = {} THEN Undefined ELSE registry[SetMin(hits)]

findCountry_noExactName(registry, q) ==
    LET normalized == trim(q)
        upper      == toUpperCase(normalized)
        lower      == toLowerCase(normalized)
        byIso3     == mapGet(countriesByIso3(registry), upper)
        byIso2     == mapGet(countriesByIso2(registry), upper)
    IN  IF byIso3 # Undefined THEN byIso3
        ELSE IF byIso2 # Undefined THEN byIso2
        ELSE findByNamePart(registry, lower)

\* findCountry(query) over the registry; a Country is always truthy, so each ||
\* passes on exactly when its left side is undefined.
findCountry(registry, q) ==
    LET normalized == trim(q)
        upper      == toUpperCase(normalized)
        lower      == toLowerCase(normalized)
        byIso3     == mapGet(countriesByIso3(registry), upper)
        byIso2     == mapGet(countriesByIso2(registry), upper)
        byName     == mapGet(countriesByName(registry), lower)
    IN  IF byIso3 # Undefined THEN byIso3
        ELSE IF byIso2 # Undefined THEN byIso2
        ELSE IF byName # Undefined THEN byName
        ELSE findByNamePart(registry, lower)

----------------------------------------------------------------------------
(* Inputs of the pairwise calculator *)

Country(iso3, name, worldRegion, dualCitizenship, dataQuality, legalDocuments, visaFreeAccess) ==
    [iso3 |-> iso3, iso2 |-> <<"X">>, name |-> name, countryCode |-> 0,
     worldRegion |-> worldRegion, dualCitizenship |-> dualCitizenship,
     dataQuality |-> dataQuality, dataYear |-> defaultYear, comment |-> Null,
     legalDocuments |-> legalDocuments, visaFreeAccess |-> visaFreeAccess]

\* The strings of one or two characters over an alphabet.
ShortStrings(chars) ==
    { <<c>> : c \in chars } \cup { <<c, d>> : c \in chars, d \in chars }

DataQualities == {"verified", "overridden", "uncertain"}

\* World-region codes 1..MaxRegion; the data set uses 1..6.
MaxRegion == 7

Doc(url) == [title |-> <<"d">>, url |-> url]

\* Country names and partner-list entries for the compatibility gate: equal,
\* equal up to case, one containing the other, and unrelated.
GateNames == ShortStrings({"a", "B"})

PartnerEntries == ShortStrings({"a", "A", "b"})

PartnerLists ==
    {<<>>} \cup { <<e>> : e \in PartnerEntries }
           \cup { <<<<c>>, <<d>>>> : c \in {"a", "A", "b"}, d \in {"a", "A", "b"} }

GateStatuses ==
    {Allowed, Disallowed, Uncertain} \cup { AllowedConditional(l) : l \in PartnerLists }

GatePool ==
    { Country(<<"X">>, n, 1, d, "verified", <<>>, <<>>) : n \in GateNames, d \in GateStatuses }

\* Countries for the sub-scores: every region, data quality, document and visa
\* shape, all named "a" and allowing dual citizenship (one conditionally, with "A").
VisaLists ==
    { <<>>, << <<"x">> >>, << <<"X">>, <<"y">>, <<"x">> >>,
      << <<"p">>, <<"q">>, <<"r">>, <<"s">>, <<"x">> >> }

DocLists == { <<>>, <<Doc(Null)>>, <<Doc(Null), Doc(Some(<<"u">>))>> }

ScorePool ==
    { Country(<<"X">>, <<"a">>, r, d, q, docs, v) :
        r \in 1..MaxRegion, d \in {Allowed, AllowedConditional(<< <<"A">> >>)},
        q \in DataQualities, docs \in DocLists, v \in VisaLists }

NoResult == [pending |-> TRUE]

NoComponents == [pending |-> TRUE]

NoRaw == [pending |-> TRUE]

NoCountry == [pending |-> TRUE]

NoList == <<>>

NoVisaResult == [pending |-> TRUE]

\* The variables of the calculator, of the ranking and of the aggregator when
\* the specification in use does not drive them.
NoPair == a = NoCountry /\ b = NoCountry /\ result = NoResult /\ sub = NoComponents /\ raw = NoRaw

NoMap == [pending |-> TRUE]

NoRanking ==
    /\ countries = NoList /\ primary = NoCountry /\ limit = 0
    /\ ranked = NoList /\ allSynergies = NoMap

NoSelection == passports = NoList /\ combined = NoVisaResult

NoLookup == query = <<>> /\ found = NoCountry

NoLoad == dataJson = NoList

\* hoveredCountry: null.
NoHover == [isNull |-> TRUE]

\* The store as create() leaves it.
InitialStore ==
    /\ selectedPassports = <<>>
    /\ hoveredCountry = NoHover
    /\ synergies = EmptyMap
    /\ topSynergies = <<>>
    /\ combinedVisaAccess = [total |-> {}, newlyUnlocked |-> EmptyMap]
    /\ isLoading = FALSE
    /\ showInfoPanel = FALSE

----------------------------------------------------------------------------
(* The pairwise calculator applied to one pair *)

Score ==
    /\ pc = "ready"
    /\ result' = calculateSynergy(a, b)
    /\ sub' = IF allowsDual(a) /\ allowsDual(b) /\ canPair(a, b)
              THEN components(a, b) ELSE NoComponents
    /\ pc' = "scored"
    /\ UNCHANGED <<a, b, raw, rankVars, visaVars, findVars, loadVars, storeVars>>

InitPair(pool) ==
    /\ pc = "ready"
    /\ a \in pool
    /\ b \in pool
    /\ result = NoResult
    /\ sub = NoComponents
    /\ raw = NoRaw
    /\ NoRanking
    /\ NoSelection
    /\ NoLookup
    /\ NoLoad
    /\ InitialStore

InitGate == InitPair(GatePool)

InitScore == InitPair(ScorePool)

NextSynergy == Score

\* calculateSynergy over the pairs of the compatibility gate's pool.
SpecGate == InitGate /\ [][NextSynergy]_vars

\* calculateSynergy over the pairs of the sub-scores' pool.
SpecScore == InitScore /\ [][NextSynergy]_vars

----------------------------------------------------------------------------
(* The pairwise calculator on long visa-free lists *)

\* The longest visa-free list drawn: past maxPossible.
MaxDest == 204

\* Destinations named "from", ..., "to" in decimal.
Numbered(from, to) == [i \in 1..(to - from + 1) |-> ToDecimal(from + i - 1)]

DestCounts == {1, 2, 50, 100, 150, 199, 200, MaxDest}

DestStarts == {1, 51, 101, 151, 200}

Holder(name, list) == Country(<<"X">>, name, 1, Allowed, "verified", <<>>, list)

InitCoverage ==
    /\ pc = "ready"
    /\ \E n \in DestCounts : a = Holder(<<"a">>, Numbered(1, n))
    /\ \E from \in DestStarts, to \in DestCounts :
           /\ from <= to
           /\ b = Holder(<<"b">>, Numbered(from, to))
    /\ result = NoResult
    /\ sub = NoComponents
    /\ raw = NoRaw
    /\ NoRanking
    /\ NoSelection
    /\ NoLookup
    /\ NoLoad
    /\ InitialStore

\* calculateSynergy over pairs holding up to MaxDest destinations.
SpecCoverage == InitCoverage /\ [][NextSynergy]_vars

----------------------------------------------------------------------------
(* The pairwise calculator on names that are parts of each other *)

\* Countries allowing dual citizenship only with the partners of a list, and
\* countries allowing it unconditionally under each of the names.
KoreaPool ==
    { Country(<<"X">>, <<"X">>, 1, AllowedConditional(l), "verified", <<>>, <<>>) :
          l \in
          { <<>>,
            <<<<"K","o","r","e","a">>>>,
            <<<<"N","o","r","t","h"," ","K","o","r","e","a">>>>,
            <<<<"N","O","R","T","H"," ","K","O","R","E","A">>,
              <<"s","o","u","t","h"," ","k","o","r","e","a">>>>,
            <<<<"N","o","r","t","h"," ","K","o","r","e","a"," ","a","n","d"," ","S","o","u","t","h"," ","K","o","r","e","a">>>> } }
        \cup { Country(<<"K">>, n, 1, Allowed, "verified", <<>>, <<>>) :
              n \in { <<"K","o","r","e","a">>,
                      <<"N","o","r","t","h"," ","K","o","r","e","a">>,
                      <<"S","o","u","t","h"," ","K","o","r","e","a">>,
                      <<"K","O","R","E","A">>, <<"K","o","r">> } }

InitKorea == InitPair(KoreaPool)

\* calculateSynergy over the pairs of the pool of partner names.
SpecKorea == InitKorea /\ [][NextSynergy]_vars

----------------------------------------------------------------------------
(* Raw records, normalized and then scored against a partner *)

Italy == <<"I","t","a","l","y">>

Germany == <<"G","e","r","m","a","n","y">>

LegalityTexts ==
    { <<"Y","e","s">>,
      <<" ","y","e","s"," ">>,
      <<"N","o">>,
      <<"n","o">>,
      <<"N","o",","," ","b","u","t"," ","y","e","s"," ","w","i","t","h"," ","I","t","a","l","y",","," ","F","r","a","n","c","e">>,
      <<"N","o"," ","b","u","t"," ","y","e","s"," ","w","i","t","h">>,
      <<"?","?","?">>,
      <<"Y","e","s",","," ","m","o","s","t","l","y">>,
      <<" "," ","N","O",","," ","B","U","T"," ","Y","E","S"," ","W","I","T","H"," ","\t">>,
      <<>> }

ConditionalFields ==
    { Null,
      Some(<<>>),
      Some(<<"I","t","a","l","y",","," ","F","r","a","n","c","e">>),
      Some(<<" ",",","g","e","r","m","a","n","y",",",","," ","I","t","a","l","y"," ","a","n","d"," ","F","r","a","n","c","e"," ">>),
      Some(<<"F","r","a","n","c","e">>) }

StatusTexts ==
    { Null,
      Some(<<>>),
      Some(<<"?","?","?">>),
      Some(<<" ","?","?","?"," ">>),
      Some(<<" ","O","v","e","r","r","i","d","e","n"," ","b","y"," ","M","A","C","I","M","I","D","E"," ">>),
      Some(<<"O","V","E","R","R","R","I","D","E">>),
      Some(<<"c","h","e","c","k","e","d">>),
      Some(<<"?">>) }

\* (urls, documents) of unequal and equal lengths, with missing entries.
DocumentArrays ==
    { <<<<>>, <<>>>>,
      <<<<Some(<<"u">>)>>, <<>>>>,
      <<<<Null>>, << <<"t">>, <<>> >>>>,
      <<<<Some(<<>>), Some(<<"u">>), Null>>, << <<"t">> >>>> }

RawVisaLists == { [present |-> FALSE, list |-> <<>>],
                  [present |-> TRUE, list |-> <<>>],
                  [present |-> TRUE, list |-> << <<"x">>, <<"Y">> >>] }

RawPool ==
    { [ISO3 |-> <<"X">>, ISO2 |-> <<"X">>, country |-> <<"X">>, country_code |-> 1,
       world_region |-> 1, Year |-> y, Comment |-> Null,
       Allows_dual |-> t, Column1 |-> c, Status |-> st,
       urls |-> d[1], documents |-> d[2], visaFreeAccess |-> v] :
        t \in LegalityTexts, c \in ConditionalFields, st \in StatusTexts,
        d \in DocumentArrays, v \in RawVisaLists, y \in {0, 2019} }

\* Unconditionally-allowing partners, one with visa data.
Partners ==
    { Country(<<"P">>, n, 2, Allowed, "verified", <<>>, v) :
        n \in {Italy, Germany}, v \in { <<>>, << <<"x">> >> } }

Normalize ==
    /\ pc = "raw"
    /\ a' = normalizeCountry(raw)
    /\ pc' = "ready"
    /\ UNCHANGED <<b, result, sub, raw, rankVars, visaVars, findVars, loadVars, storeVars>>

InitNorm ==
    /\ pc = "raw"
    /\ raw \in RawPool
    /\ a = NoCountry
    /\ b \in Partners
    /\ result = NoResult
    /\ sub = NoComponents
    /\ NoRanking
    /\ NoSelection
    /\ NoLookup
    /\ NoLoad
    /\ InitialStore

NextNorm == Normalize \/ Score

\* normalizeCountry over the raw pool, then calculateSynergy with a partner.
SpecNorm == InitNorm /\ [][NextNorm]_vars

----------------------------------------------------------------------------
(* The ranking engine over a registry *)

\* Number of countries in the registry.
RegSize == 4

\* Limits 0..MaxLimit.
MaxLimit == 4

IsoCode(i) == <<UpperLetters[i], UpperLetters[i], UpperLetters[i]>>

CountryName(i) == <<UpperLetters[i]>>

\* What the i-th registry country may be: allowing unconditionally in one of
\* three regions, not allowing, or allowing only with country "A".
RankChoices(i) ==
    << Country(IsoCode(i), CountryName(i), 1, Allowed, "verified", <<>>, <<>>),
       Country(IsoCode(i), CountryName(i), 2, Allowed, "verified", <<>>, <<>>),
       Country(IsoCode(i), CountryName(i), 3, Allowed, "verified", <<>>, <<>>),
       Country(IsoCode(i), CountryName(i), 1, Disallowed, "verified", <<>>, <<>>),
       Country(IsoCode(i), CountryName(i), 1, AllowedConditional(<<CountryName(1)>>),
               "verified", <<>>, <<>>) >>

\* The registry in which the i-th country is choice k[i] of RankChoices(i).
Registry(k) == [i \in 1..RegSize |-> RankChoices(i)[k[i]]]

Rank ==
    /\ pc = "ready"
    /\ ranked' = getTopSynergies(countries, primary, limit)
    /\ pc' = "ranked"
    /\ UNCHANGED <<countries, primary, limit, allSynergies, pairVars, visaVars, findVars, loadVars, storeVars>>

Heat ==
    /\ pc = "ready"
    /\ allSynergies' = getAllSynergies(countries, primary)
    /\ pc' = "mapped"
    /\ UNCHANGED <<countries, primary, limit, ranked, pairVars, visaVars, findVars, loadVars, storeVars>>

InitRank ==
    /\ pc = "ready"
    /\ \E k \in [1..RegSize -> DOMAIN RankChoices(1)] : countries = Registry(k)
    /\ primary \in Range(countries)
    /\ limit \in 0..MaxLimit
    /\ ranked = NoList
    /\ allSynergies = NoMap
    /\ NoPair
    /\ NoSelection
    /\ NoLookup
    /\ NoLoad
    /\ InitialStore

NextRank == Rank \/ Heat

\* getTopSynergies and getAllSynergies over every registry, primary and limit
\* of the pool.
SpecRank == InitRank /\ [][NextRank]_vars

----------------------------------------------------------------------------
(* Lookup in the registry *)

Iso2Code(i) == <<UpperLetters[i], UpperLetters[i]>>

\* Display names: one that is another country's ISO2 code, one that is another
\* country's ISO3 code in lower case, and names that are parts of each other.
FindNames == << <<"A","b">>, <<"B","B">>, <<"b">>, <<"a","a","a">> >>

\* The registry whose i-th country has the codes of position i and the name
\* FindNames[k[i]].
NamedRegistry(k) ==
    [i \in DOMAIN k |->
        [Country(IsoCode(i), FindNames[k[i]], 1, Allowed, "verified", <<>>, <<>>)
            EXCEPT !.iso2 = Iso2Code(i)]]

Queries ==
    { <<>>, <<" ">>, <<"b">>, <<" ","B"," ">>, <<"b","b">>, <<"a","a","a">>,
      <<"A","A","A">>, <<"a">>, <<"a","b">>, <<"A","B"," ">>, <<"z","z">>,
      <<"a","a">>, <<"d","d">>, <<"\t","d","D","d">>, <<"a"," ","b">> }

Find ==
    /\ pc = "ready"
    /\ found' = findCountry(countries, query)
    /\ pc' = "found"
    /\ UNCHANGED <<query, pairVars, rankVars, visaVars, loadVars, storeVars>>

InitFind ==
    /\ pc = "ready"
    /\ \E n \in 0..RegSize :
           \E k \in [1..n -> DOMAIN FindNames] : countries = NamedRegistry(k)
    /\ query \in Queries
    /\ found = NoCountry
    /\ primary = NoCountry /\ limit = 0 /\ ranked = NoList /\ allSynergies = NoMap
    /\ NoPair
    /\ NoSelection
    /\ NoLoad
    /\ InitialStore

NextFind == Find

\* findCountry over every registry and query of the pool.
SpecFind == InitFind /\ [][NextFind]_vars

----------------------------------------------------------------------------
(* Registry construction from a raw data set, then a lookup *)

\* Records in the raw data set.
LoadSize == 3

\* A raw record with the codes of position i and the given legality text.
RawRecord(i, text) ==
    [ISO3 |-> IsoCode(i), ISO2 |-> Iso2Code(i), country |-> CountryName(i),
     country_code |-> i, world_region |-> 1, Year |-> 0, Comment |-> Null,
     Allows_dual |-> text, Column1 |-> Null, Status |-> Null,
     urls |-> <<>>, documents |-> <<>>,
     visaFreeAccess |-> [present |-> FALSE, list |-> <<>>]]

\* Records of two countries, each with either of two legality texts.
LoadRecords ==
    << RawRecord(1, <<"Y","e","s">>), RawRecord(1, <<"N","o">>),
       RawRecord(2, <<"Y","e","s">>), RawRecord(2, <<"N","o">>) >>

LoadQueries == { <<"A","A","A">>, <<"b","b","b">> }

\* Module initialization of lib/data.ts.
Load ==
    /\ pc = "unloaded"
    /\ countries' = loadCountries(dataJson)
    /\ pc' = "ready"
    /\ UNCHANGED <<primary, limit, ranked, allSynergies, pairVars, visaVars,
                   findVars, loadVars, storeVars>>

InitLoad ==
    /\ pc = "unloaded"
    /\ \E n \in 0..LoadSize :
           \E k \in [1..n -> DOMAIN LoadRecords] :
               dataJson = [i \in 1..n |-> LoadRecords[k[i]]]
    /\ countries = NoList
    /\ primary = NoCountry /\ limit = 0 /\ ranked = NoList /\ allSynergies = NoMap
    /\ query \in LoadQueries
    /\ found = NoCountry
    /\ NoPair
    /\ NoSelection
    /\ InitialStore

NextLoad == Load \/ Find

\* The registry built from every data set of the pool, then findCountry.
SpecLoad == InitLoad /\ [][NextLoad]_vars

----------------------------------------------------------------------------
(* The combined visa-access aggregator over a selection *)

\* Passports held at once (the store allows 3).
MaxSel == 3

\* Visa-free lists with repeats, within a list and across lists, differing in case.
SelVisaLists ==
    { <<>>, << <<"x">> >>, << <<"X">> >>, << <<"z">> >>, << <<"y">>, <<"x">> >>,
      << <<"X">>, <<"x">>, <<"z">> >>, << <<"y">>, <<"y">> >> }

Passport(i, v) == Country(IsoCode(i), CountryName(i), 1, Allowed, "verified", <<>>, v)

DistinctIso3(s) == \A i, j \in DOMAIN s : (i # j) => (s[i].iso3 # s[j].iso3)

\* The selection of passports who[1], who[2], ... holding the given visa lists.
Selection(who, lists) == [i \in DOMAIN who |-> Passport(who[i], lists[i])]

Combine ==
    /\ pc = "ready"
    /\ combined' = getCombinedVisaAccess(passports)
    /\ pc' = "combined"
    /\ UNCHANGED <<passports, pairVars, rankVars, findVars, loadVars, storeVars>>

InitVisa ==
    /\ pc = "ready"
    /\ \E n \in 0..MaxSel :
           \E who \in [1..n -> 1..MaxSel], lists \in [1..n -> SelVisaLists] :
               /\ passports = Selection(who, lists)
               /\ DistinctIso3(passports)
    /\ combined = NoVisaResult
    /\ NoPair
    /\ NoRanking
    /\ NoLookup
    /\ NoLoad
    /\ InitialStore

NextVisa == Combine

\* getCombinedVisaAccess over every selection of the pool.
SpecVisa == InitVisa /\ [][NextVisa]_vars

----------------------------------------------------------------------------
(* The application store over a registry *)

\* Max 3 passports.
MaxPassports == 3

\* getTopSynergies(primaryPassport, 10)
TopLimit == 10

\* Number of countries in the store's registry.
StoreSize == 13

\* selectCountry is called with one of the first Picks countries of the registry
\* (search box, globe) or one of the first TopPicks entries of topSynergies
\* (the panel's list of best pairings).
Picks == 4

TopPicks == 2

StoreVisa(i) ==
    CASE i = 1 -> << <<"x">>, <<"y">> >>
      [] i = 2 -> << <<"X">>, <<"z">> >>
      [] i = 3 -> << <<"y">> >>
      [] OTHER -> <<>>

\* The i-th country of the store's registry: the third does not allow dual
\* citizenship, every fourth is uncertain, regions go round 1..7.
StoreCountry(i) ==
    Country(IsoCode(i), CountryName(i), (i % 7) + 1,
            IF i = 3 THEN Disallowed ELSE Allowed,
            IF i % 4 = 0 THEN "uncertain" ELSE "verified",
            <<>>, StoreVisa(i))

StoreRegistry == [i \in 1..StoreSize |-> StoreCountry(i)]

\* c.synergy = synergy in place of the spread: the registry's object gets the field.
spreadSource_assigned(c, synergy) == withSynergy(c, synergy)

\* What { ...c, synergy } leaves of c: the spread copies c's fields into a new
\* object, c keeps its own.
spreadSource(c, synergy) == c

\* The countries array after getTopSynergies(country, limit): filter and map
\* return new arrays, sort reorders the array the second filter returned, and
\* every other country went through the spread.
countriesAfterTopSynergies(registry, country) ==
    [i \in DOMAIN registry |->
        IF registry[i].iso3 # country.iso3
        THEN spreadSource(registry[i], calculateSynergy(country, registry[i]))
        ELSE registry[i]]

\* What the store's actions never touch.
storeFrame ==
    <<primary, limit, ranked, allSynergies, pairVars, visaVars, findVars, loadVars, isLoading>>

\* The empty views of removeCountry's and clearSelection's set({...}).
emptied ==
    /\ selectedPassports' = <<>>
    /\ synergies' = EmptyMap
    /\ topSynergies' = <<>>
    /\ combinedVisaAccess' = [total |-> {}, newlyUnlocked |-> EmptyMap]
    /\ showInfoPanel' = FALSE

\* Array.prototype.some((c) => c.iso3 === iso3)
someIso3(list, iso3) == \E i \in DOMAIN list : list[i].iso3 = iso3

selectCountry_noMax(country) ==
    LET current == selectedPassports
    IN  IF someIso3(current, country.iso3)
        THEN /\ pc' = "rejected"
             /\ UNCHANGED <<countries, storeVars, storeFrame>>
        ELSE LET newPassports    == Append(current, country)
                 primaryPassport == newPassports[1]
                 visaResult      == getCombinedVisaAccess(newPassports)
             IN  /\ selectedPassports' = newPassports
                 /\ synergies' = getAllSynergies(countries, primaryPassport)
                 /\ topSynergies' = getTopSynergies(countries, primaryPassport, TopLimit)
                 /\ countries' = countriesAfterTopSynergies(countries, primaryPassport)
                 /\ combinedVisaAccess' = [total |-> visaResult.total,
                                           newlyUnlocked |-> visaResult.newlyUnlocked]
                 /\ showInfoPanel' = TRUE
                 /\ pc' = "selected"
                 /\ UNCHANGED <<hoveredCountry, storeFrame>>

selectCountry_panelFirst(country) ==
    LET current == selectedPassports
    IN  IF someIso3(current, country.iso3) \/ Len(current) >= MaxPassports
        THEN /\ pc' = "rejected"
             /\ showInfoPanel' = TRUE
             /\ UNCHANGED <<countries, selectedPassports, hoveredCountry, synergies,
                            topSynergies, combinedVisaAccess, storeFrame>>
        ELSE LET newPassports    == Append(current, country)
                 primaryPassport == newPassports[1]
                 visaResult      == getCombinedVisaAccess(newPassports)
             IN  /\ selectedPassports' = newPassports
                 /\ synergies' = getAllSynergies(countries, primaryPassport)
                 /\ topSynergies' = getTopSynergies(countries, primaryPassport, TopLimit)
                 /\ countries' = countriesAfterTopSynergies(countries, primaryPassport)
                 /\ combinedVisaAccess' = [total |-> visaResult.total,
                                           newlyUnlocked |-> visaResult.newlyUnlocked]
                 /\ showInfoPanel' = TRUE
                 /\ pc' = "selected"
                 /\ UNCHANGED <<hoveredCountry, storeFrame>>

selectCountry_prepends(country) ==
    LET current == selectedPassports
    IN  IF someIso3(current, country.iso3) \/ Len(current) >= MaxPassports
        THEN /\ pc' = "rejected"
             /\ UNCHANGED <<countries, storeVars, storeFrame>>
        ELSE LET newPassports    == <<country>> \o current
                 primaryPassport == newPassports[1]
                 visaResult      == getCombinedVisaAccess(newPassports)
             IN  /\ selectedPassports' = newPassports
                 /\ synergies' = getAllSynergies(countries, primaryPassport)
                 /\ topSynergies' = getTopSynergies(countries, primaryPassport, TopLimit)
                 /\ countries' = countriesAfterTopSynergies(countries, primaryPassport)
                 /\ combinedVisaAccess' = [total |-> visaResult.total,
                                           newlyUnlocked |-> visaResult.newlyUnlocked]
                 /\ showInfoPanel' = TRUE
                 /\ pc' = "selected"
                 /\ UNCHANGED <<hoveredCountry, storeFrame>>

\* selectCountry(country): the two early returns leave the store as it is,
\* otherwise the country is appended and the views are recalculated.
selectCountry(country) ==
    LET current == selectedPassports
    IN  IF someIso3(current, country.iso3) \/ Len(current) >= MaxPassports
        THEN /\ pc' = "rejected"
             /\ UNCHANGED <<countries, storeVars, storeFrame>>
        ELSE LET newPassports    == Append(current, country)
                 primaryPassport == newPassports[1]
                 visaResult      == getCombinedVisaAccess(newPassports)
             IN  /\ selectedPassports' = newPassports
                 /\ synergies' = getAllSynergies(countries, primaryPassport)
                 /\ topSynergies' = getTopSynergies(countries, primaryPassport, TopLimit)
                 /\ countries' = countriesAfterTopSynergies(countries, primaryPassport)
                 /\ combinedVisaAccess' = [total |-> visaResult.total,
                                           newlyUnlocked |-> visaResult.newlyUnlocked]
                 /\ showInfoPanel' = TRUE
                 /\ pc' = "selected"
                 /\ UNCHANGED <<hoveredCountry, storeFrame>>

removeCountry_viewsKept(iso3) ==
    LET current      == selectedPassports
        newPassports == SelectSeq(current, LAMBDA c : c.iso3 # iso3)
    IN  /\ pc' = "removed"
        /\ IF Len(newPassports) = 0
           THEN /\ emptied
                /\ UNCHANGED <<countries, hoveredCountry, storeFrame>>
           ELSE LET visaResult == getCombinedVisaAccess(newPassports)
                IN  /\ selectedPassports' = newPassports
                    /\ combinedVisaAccess' = [total |-> visaResult.total,
                                              newlyUnlocked |-> visaResult.newlyUnlocked]
                    /\ UNCHANGED <<countries, synergies, topSynergies, hoveredCountry,
                                   showInfoPanel, storeFrame>>

\* removeCountry(iso3): the passports with another ISO3 stay in their order;
\* none left empties the views, otherwise they are recalculated.
removeCountry(iso3) ==
    LET current      == selectedPassports
        newPassports == SelectSeq(current, LAMBDA c : c.iso3 # iso3)
    IN  /\ pc' = "removed"
        /\ IF Len(newPassports) = 0
           THEN /\ emptied
                /\ UNCHANGED <<countries, hoveredCountry, storeFrame>>
           ELSE LET primaryPassport == newPassports[1]
                    visaResult      == getCombinedVisaAccess(newPassports)
                IN  /\ selectedPassports' = newPassports
                    /\ synergies' = getAllSynergies(countries, primaryPassport)
                    /\ topSynergies' = getTopSynergies(countries, primaryPassport, TopLimit)
                    /\ countries' = countriesAfterTopSynergies(countries, primaryPassport)
                    /\ combinedVisaAccess' = [total |-> visaResult.total,
                                              newlyUnlocked |-> visaResult.newlyUnlocked]
                    /\ UNCHANGED <<hoveredCountry, showInfoPanel, storeFrame>>

clearSelection ==
    /\ pc' = "cleared"
    /\ emptied
    /\ UNCHANGED <<countries, hoveredCountry, storeFrame>>

\* setHoveredCountry(country): a Country or null.
setHoveredCountry(country) ==
    /\ pc' = "hovered"
    /\ hoveredCountry' = country
    /\ UNCHANGED <<countries, selectedPassports, synergies, topSynergies,
                   combinedVisaAccess, showInfoPanel, storeFrame>>

toggleInfoPanel ==
    /\ pc' = "toggled"
    /\ showInfoPanel' = ~showInfoPanel
    /\ UNCHANGED <<countries, selectedPassports, hoveredCountry, synergies,
                   topSynergies, combinedVisaAccess, storeFrame>>

\* The countries selectCountry is called with.
SelectInputs ==
    { countries[i] : i \in 1..Picks } \cup Range(slice0(topSynergies, TopPicks))

InitStore ==
    /\ pc = "store"
    /\ countries = StoreRegistry
    /\ primary = NoCountry
    /\ limit = 0
    /\ ranked = NoList
    /\ allSynergies = NoMap
    /\ NoPair
    /\ NoSelection
    /\ NoLookup
    /\ NoLoad
    /\ InitialStore

NextStore ==
    \/ \E country \in SelectInputs : selectCountry(country)
    \/ \E iso3 \in { selectedPassports[i].iso3 : i \in DOMAIN selectedPassports }
                       \cup {IsoCode(StoreSize)} : removeCountry(iso3)
    \/ clearSelection
    \/ \E country \in {NoHover, countries[1], countries[2]} : setHoveredCountry(country)
    \/ toggleInfoPanel

\* The store's actions in any order over the store's registry; removeCountry is
\* called with a selected passport's ISO3 or one that is never selected.
SpecStore == InitStore /\ [][NextStore]_vars

----------------------------------------------------------------------------
(* Properties of the pairwise calculator *)

Scored == pc = "scored"

NotAllowing(c) == c.dualCitizenship = Disallowed \/ c.dualCitizenship = Uncertain

\* C1: whenever the status of a or of b is Disallowed or Uncertain,
\* calculateSynergy(a, b) is incompatible with score 0.
C1_NotAllowingIsIncompatible ==
    (Scored /\ (NotAllowing(a) \/ NotAllowing(b)))
        => (result.compatible = FALSE /\ result.score = 0)

C1_Witness ==
    /\ Scored
    /\ a.dualCitizenship = Allowed
    /\ b.dualCitizenship = Uncertain
    /\ result.compatible = FALSE

InRange(v) == 0 <= v /\ v <= 100

\* C2: for every pair of countries, whatever their world-region codes, the four
\* breakdown values and the total score of calculateSynergy are in [0,100].
C2_ScoresInRange ==
    Scored =>
        /\ InRange(result.breakdown.visaExpansion)
        /\ InRange(result.breakdown.legalClarity)
        /\ InRange(result.breakdown.geoDiversity)
        /\ InRange(result.breakdown.dataConfidence)
        /\ InRange(result.score)

\* C3: for a compatible pair, when either visa-free list is empty the
\* visa-expansion sub-score is exactly 50 and hasData is false.
C3_EmptyListIsNeutral ==
    (Scored /\ result.compatible
        /\ (a.visaFreeAccess = <<>> \/ b.visaFreeAccess = <<>>))
        => (result.breakdown.visaExpansion = 50 /\ sub.hasData = FALSE)

C3_Witness ==
    /\ Scored
    /\ result.compatible
    /\ a.visaFreeAccess # <<>>
    /\ b.visaFreeAccess = <<>>
    /\ result.breakdown.visaExpansion = 50

\* A partner list names a country: some entry, lower-cased, contains the
\* country's lower-cased display name.
Names(list, name) ==
    \E i \in DOMAIN list : includes(toLowerCase(list[i]), toLowerCase(name))

ConditionalSideHolds(x, y) ==
    (x.dualCitizenship.conditional = TRUE)
        => Names(x.dualCitizenship.withCountries, y.name)

\* C4: when both a and b allow dual citizenship, the pair is compatible exactly
\* when each conditionally-allowing side's partner list has an entry that
\* contains, ignoring case, the other country's display name.
C4_CompatibleIffPartnersNamed ==
    (Scored /\ a.dualCitizenship.allowed = "true" /\ b.dualCitizenship.allowed = "true")
        => (result.compatible
              <=> (ConditionalSideHolds(a, b) /\ ConditionalSideHolds(b, a)))

\* a's list names b (up to case), b's list does not name a: incompatible.
C4_Witness ==
    /\ Scored
    /\ a.dualCitizenship.allowed = "true" /\ a.dualCitizenship.conditional
    /\ b.dualCitizenship.allowed = "true" /\ b.dualCitizenship.conditional
    /\ Names(a.dualCitizenship.withCountries, b.name)
    /\ ~(\E i \in DOMAIN a.dualCitizenship.withCountries :
            includes(a.dualCitizenship.withCountries[i], b.name))
    /\ ~Names(b.dualCitizenship.withCountries, a.name)
    /\ result.compatible = FALSE

\* C10: the geographic-diversity sub-score is 30 for equal regions, whichever
\* region, and 50 + (|regionA - regionB| / 5) * 50 otherwise: 60 at separation
\* 1 and 100 at separation 5.
C10_GeoDiversity ==
    (Scored /\ result.compatible) =>
        LET d == Abs(a.worldRegion - b.worldRegion)
            g == result.breakdown.geoDiversity
        IN  /\ sub.geoDiversity = g * Unit
            /\ (d = 0) => (g = 30)
            /\ (d # 0) => (5 * (g - 50) = d * 50)
            /\ (d = 1) => (g = 60)
            /\ (d = 5) => (g = 100)

C10_Witness ==
    /\ Scored
    /\ result.compatible
    /\ Abs(a.worldRegion - b.worldRegion) = 5
    /\ result.breakdown.geoDiversity = 100

\* n is q/d rounded to the nearest integer, a half going up (d > 0).
IsRounded(n, q, d) == 2 * n * d <= 2 * q + d /\ 2 * q + d < 2 * n * d + 2 * d

\* The sum of the unrounded sub-scores under percentage weights, in 1/(100 * Unit).
WeightedPercent(c, wv, wl, wg, wd) ==
    wv * c.visa + wl * c.legalClarity + wg * c.geoDiversity + wd * c.dataConfidence

\* C11: for a compatible pair the total is the weighted sum of the four
\* unrounded sub-scores rounded to the nearest integer, with weights 40/30/20/10
\* when visa expansion had data and 20/40/30/10 when it was the neutral value;
\* each breakdown value is its own sub-score rounded.
C11_WeightedTotal ==
    (Scored /\ result.compatible) =>
        /\ sub.hasData =>
               IsRounded(result.score, WeightedPercent(sub, 40, 30, 20, 10), 100 * Unit)
        /\ ~sub.hasData =>
               IsRounded(result.score, WeightedPercent(sub, 20, 40, 30, 10), 100 * Unit)
        /\ IsRounded(result.breakdown.visaExpansion, sub.visa, Unit)
        /\ IsRounded(result.breakdown.legalClarity, sub.legalClarity, Unit)
        /\ IsRounded(result.breakdown.geoDiversity, sub.geoDiversity, Unit)
        /\ IsRounded(result.breakdown.dataConfidence, sub.dataConfidence, Unit)

\* Visa expansion 1.25 with data: the total, 46.5 rounded, is 47, while the
\* rounded breakdown values would give 46.4.
C11_Witness ==
    /\ Scored
    /\ result.compatible
    /\ sub.hasData
    /\ sub.visa = 5
    /\ result.breakdown
           = [visaExpansion |-> 1, legalClarity |-> 100, geoDiversity |-> 30,
              dataConfidence |-> 100]
    /\ result.score = 47

\* C12: when both countries have visa data, with new the number of b's
\* destinations (ignoring case) not in a's set and combined the size of the
\* union, the visa-expansion sub-score is
\* min(50, new/50*50) + min(50, combined/200*50), capped at 100, for every new
\* and combined, combined > 200 included.
C12_VisaExpansionFormula ==
    (Scored /\ result.compatible /\ a.visaFreeAccess # <<>> /\ b.visaFreeAccess # <<>>) =>
        LET aSet     == { toLowerCase(a.visaFreeAccess[i]) : i \in DOMAIN a.visaFreeAccess }
            bSet     == { toLowerCase(b.visaFreeAccess[i]) : i \in DOMAIN b.visaFreeAccess }
            new      == Cardinality(bSet \ aSet)
            combine  == Cardinality(aSet \cup bSet)
            fromNew  == IF new >= 50 THEN 50 * Unit ELSE new * Unit
            fromAll  == IF combine >= 200 THEN 50 * Unit ELSE (combine * 50 * Unit) \div 200
            expected == IF fromNew + fromAll >= 100 * Unit THEN 100 * Unit
                        ELSE fromNew + fromAll
        IN  sub.visa = expected

HasReason(r) == "reason" \in DOMAIN r

\* C13: the gate is evaluated in order and the first failing check decides: if
\* a does not allow dual citizenship the reason names a, even when b does not
\* allow it either; otherwise if b does not allow it the reason names b;
\* otherwise if a conditional check fails the reason is the
\* conditional-restrictions text. Every incompatible result has score 0, and a
\* reason is present exactly when compatible is false.
C13_FirstFailingCheckDecides ==
    Scored =>
        LET aAllows == a.dualCitizenship.allowed = "true"
            bAllows == b.dualCitizenship.allowed = "true"
        IN  /\ ~aAllows => (HasReason(result) /\ result.reason = a.name \o DoesNotAllow)
            /\ (aAllows /\ ~bAllows) =>
                   (HasReason(result) /\ result.reason = b.name \o DoesNotAllow)
            /\ (aAllows /\ bAllows
                    /\ ~(ConditionalSideHolds(a, b) /\ ConditionalSideHolds(b, a))) =>
                   (HasReason(result) /\ result.reason = ConditionalReason)
            /\ ~result.compatible => result.score = 0
            /\ HasReason(result) <=> ~result.compatible

\* Neither side allows dual citizenship and the names differ: the reason is a's.
C13_Witness ==
    /\ Scored
    /\ a.dualCitizenship = Disallowed
    /\ b.dualCitizenship = Uncertain
    /\ a.name # b.name
    /\ result.reason = a.name \o DoesNotAllow
    /\ result.reason # b.name \o DoesNotAllow
    /\ result.score = 0

\* C14: compatibility is symmetric: calculateSynergy(a, b).compatible equals
\* calculateSynergy(b, a).compatible (score and reason may differ).
C14_CompatibilityIsSymmetric ==
    Scored => (calculateSynergy(b, a).compatible = result.compatible)

\* Only a is conditional, and its list names b: compatible in both orders.
C14_Witness ==
    /\ Scored
    /\ isConditional(a.dualCitizenship)
    /\ b.dualCitizenship = Allowed
    /\ result.compatible
    /\ calculateSynergy(b, a).compatible

\* How many of the two sides satisfy a condition.
Sides(onA, onB) == (IF onA THEN 1 ELSE 0) + (IF onB THEN 1 ELSE 0)

\* v kept within [0, 100].
Clamped(v) == IF v < 0 THEN 0 ELSE IF v > 100 THEN 100 ELSE v

\* C22: the legal-clarity sub-score is 100 minus 20 for each conditionally
\* allowed side, minus 25 for each side of uncertain data quality, minus 5 for
\* each side of overridden data quality, floored at 0.
C22_LegalClarity ==
    (Scored /\ result.compatible) =>
        LET conditional == Sides(a.dualCitizenship.conditional = TRUE,
                                 b.dualCitizenship.conditional = TRUE)
            uncertain   == Sides(a.dataQuality = "uncertain", b.dataQuality = "uncertain")
            overridden  == Sides(a.dataQuality = "overridden", b.dataQuality = "overridden")
            expected    == 100 - 20 * conditional - 25 * uncertain - 5 * overridden
        IN  /\ sub.legalClarity = (IF expected < 0 THEN 0 ELSE expected) * Unit
            /\ result.breakdown.legalClarity = (IF expected < 0 THEN 0 ELSE expected)

\* One conditional side, one uncertain and one overridden: 100 - 20 - 25 - 5.
C22_Witness ==
    /\ Scored
    /\ result.compatible
    /\ a.dualCitizenship.conditional = TRUE
    /\ b.dualCitizenship.conditional = FALSE
    /\ a.dataQuality = "uncertain"
    /\ b.dataQuality = "overridden"
    /\ result.breakdown.legalClarity = 50

\* Some legal document of the country has a URL that is not null.
HasDocumentUrl(c) ==
    \E i \in DOMAIN c.legalDocuments : ~c.legalDocuments[i].url.isNull

QualityCost(c) ==
    IF c.dataQuality = "uncertain" THEN 40
    ELSE IF c.dataQuality = "overridden" THEN 10 ELSE 0

\* C23: the data-confidence sub-score is 100, minus per side 40 if its data
\* quality is uncertain or else 10 if overridden, plus 5 per side that has any
\* visa data, plus 5 per side that has a legal document with a non-null URL,
\* clamped to [0,100].
C23_DataConfidence ==
    (Scored /\ result.compatible) =>
        LET expected ==
                100 - QualityCost(a) - QualityCost(b)
                    + 5 * Sides(a.visaFreeAccess # <<>>, b.visaFreeAccess # <<>>)
                    + 5 * Sides(HasDocumentUrl(a), HasDocumentUrl(b))
        IN  /\ sub.dataConfidence = Clamped(expected) * Unit
            /\ result.breakdown.dataConfidence = Clamped(expected)

\* Both verified, with visa data and document URLs: 120 clamped to 100.
C23_Witness ==
    /\ Scored
    /\ result.compatible
    /\ a.dataQuality = "verified" /\ b.dataQuality = "verified"
    /\ a.visaFreeAccess # <<>> /\ b.visaFreeAccess # <<>>
    /\ HasDocumentUrl(a) /\ HasDocumentUrl(b)
    /\ result.breakdown.dataConfidence = 100

Korea == <<"K","o","r","e","a">>

NorthKorea == <<"N","o","r","t","h"," ","K","o","r","e","a">>

SouthKorea == <<"S","o","u","t","h"," ","K","o","r","e","a">>

\* a allows dual citizenship only with the partners of its list, b allows it
\* unconditionally.
ConditionalWithPartner ==
    /\ Scored
    /\ a.dualCitizenship.allowed = "true" /\ a.dualCitizenship.conditional = TRUE
    /\ b.dualCitizenship = Allowed

EntryInsideName(entry, name) == includes(toLowerCase(name), toLowerCase(entry))

NameInsideEntry(entry, name) == includes(toLowerCase(entry), toLowerCase(name))

\* C24 as stated: an entry matches a country when the entry is, ignoring case,
\* a substring of the country's display name; the list ["Korea"] is compatible
\* with "North Korea" and with "South Korea".
C24_EntryInsideNameMatches ==
    ConditionalWithPartner =>
        /\ result.compatible
               <=> \E i \in DOMAIN a.dualCitizenship.withCountries :
                       EntryInsideName(a.dualCitizenship.withCountries[i], b.name)
        /\ (a.dualCitizenship.withCountries = <<Korea>>
                /\ b.name \in {NorthKorea, SouthKorea}) => result.compatible

\* C24 as amended: an entry matches a country when the country's display name
\* is, ignoring case, a substring of the entry; the list ["Korea"] is
\* compatible with "Korea" and with neither "North Korea" nor "South Korea",
\* the list ["North Korea and South Korea"] with both.
C24_NameInsideEntryMatches ==
    ConditionalWithPartner =>
        /\ result.compatible
               <=> \E i \in DOMAIN a.dualCitizenship.withCountries :
                       NameInsideEntry(a.dualCitizenship.withCountries[i], b.name)
        /\ (a.dualCitizenship.withCountries = <<Korea>>) =>
               (result.compatible <=> b.name \in {Korea, <<"K","O","R","E","A">>, <<"K","o","r">>})
        /\ (a.dualCitizenship.withCountries
                 = <<<<"N","o","r","t","h"," ","K","o","r","e","a"," ","a","n","d"," ","S","o","u","t","h"," ","K","o","r","e","a">>>>
                /\ b.name \in {NorthKorea, SouthKorea}) => result.compatible

C24_Witness ==
    /\ ConditionalWithPartner
    /\ a.dualCitizenship.withCountries = <<Korea>>
    /\ b.name = NorthKorea
    /\ result.compatible = FALSE
    /\ result.reason = ConditionalReason

----------------------------------------------------------------------------
(* Properties of normalization followed by scoring *)

NoButYesWithItalyFrance ==
    <<"N","o",","," ","b","u","t"," ","y","e","s"," ","w","i","t","h"," ","I","t","a","l","y",","," ","F","r","a","n","c","e">>

ItalyFrance == <<"I","t","a","l","y",","," ","F","r","a","n","c","e">>

ExampleOutcome ==
    /\ (b.name = Italy) => result.compatible
    /\ (b.name = Germany) =>
           (result.compatible = FALSE /\ result.reason = ConditionalReason)

\* C5 as stated: a record whose legality text is "No, but yes with Italy,
\* France" is compatible with an unconditionally-allowing "Italy" and
\* incompatible, for conditional restrictions, with "Germany".
C5_LegalityTextAlone ==
    (Scored /\ raw.Allows_dual = NoButYesWithItalyFrance) => ExampleOutcome

\* C5 as amended: the same, for a record whose conditional-countries field
\* (Column1) is "Italy, France"; the partner list is read from that field.
C5_WithConditionalField ==
    (Scored /\ raw.Allows_dual = NoButYesWithItalyFrance
            /\ raw.Column1 = Some(ItalyFrance))
        => ExampleOutcome

C5_Witness ==
    /\ Scored
    /\ raw.Allows_dual = NoButYesWithItalyFrance
    /\ raw.Column1 = Some(ItalyFrance)
    /\ a.dualCitizenship = AllowedConditional(<<Italy, <<"F","r","a","n","c","e">>>>)
    /\ b.name = Italy
    /\ result.compatible

Normalized == pc # "raw"

\* The tags that hold of a DualCitizenshipStatus value.
TagsOf(d) ==
    (IF d = Allowed THEN {"Allowed"} ELSE {})
        \cup (IF d = Disallowed THEN {"Disallowed"} ELSE {})
        \cup (IF d = Uncertain THEN {"Uncertain"} ELSE {})
        \cup (IF DOMAIN d = {"allowed", "conditional", "withCountries"}
                  /\ d.allowed = "true" /\ d.conditional = TRUE
                  /\ DOMAIN d.withCountries = 1..Len(d.withCountries)
              THEN {"AllowedConditional"} ELSE {})

\* The conditional-countries field split on commas, each entry trimmed, the
\* empty entries dropped; the empty list when the field is absent.
PartnerList(field) ==
    IF field.isNull THEN <<>>
    ELSE LET pieces  == split(field.str, ",")
             trimmed == [i \in DOMAIN pieces |-> trim(pieces[i])]
         IN  SelectSeq(trimmed, LAMBDA e : Len(e) > 0)

\* C16: legality normalization classifies the trimmed, lower-cased legality
\* text: exactly "yes" gives Allowed; exactly "no" gives Disallowed; a text
\* containing "no, but yes with" or "no but yes with" gives AllowedConditional
\* with the partner list read from the conditional-countries field (empty, not
\* null, when that field is absent); every other text, "" and "???" included,
\* gives Uncertain. Exactly one tag results.
C16_LegalityClassification ==
    Normalized =>
        LET text == toLowerCase(trim(raw.Allows_dual))
            d    == a.dualCitizenship
            cond == includes(text, NoButYesWith) \/ includes(text, NoButYesWithNoComma)
        IN  /\ (text = Yes) => (d = Allowed)
            /\ (text = No) => (d = Disallowed)
            /\ cond => (d = AllowedConditional(PartnerList(raw.Column1)))
            /\ (text # Yes /\ text # No /\ ~cond) => (d = Uncertain)
            /\ Cardinality(TagsOf(d)) = 1

\* An upper-case conditional text with white space around it, and a field with
\* empty entries and entries to trim.
C16_Witness ==
    /\ Normalized
    /\ raw.Allows_dual # toLowerCase(trim(raw.Allows_dual))
    /\ a.dualCitizenship
           = AllowedConditional(<< <<"g","e","r","m","a","n","y">>,
                                   <<"I","t","a","l","y"," ","a","n","d"," ","F","r","a","n","c","e">> >>)

\* The trimmed, lower-cased status text holds a stem of "overridden".
HasOverriddenStem(text) == includes(text, Overrid) \/ includes(text, Overrrid)

\* C17: data-quality normalization maps a null status to verified; a status
\* whose trimmed, lower-cased text holds the stem of "overridden" to overridden;
\* a status whose text, trimmed likewise, is exactly "???" to uncertain; every
\* other status text to verified.
C17_DataQualityMapping ==
    Normalized =>
        LET text == toLowerCase(trim(raw.Status.str))
        IN  /\ raw.Status.isNull => (a.dataQuality = "verified")
            /\ (~raw.Status.isNull /\ HasOverriddenStem(text))
                   => (a.dataQuality = "overridden")
            /\ (~raw.Status.isNull /\ ~HasOverriddenStem(text) /\ text = Unknown)
                   => (a.dataQuality = "uncertain")
            /\ (~raw.Status.isNull /\ ~HasOverriddenStem(text) /\ text # Unknown)
                   => (a.dataQuality = "verified")

\* "???" with white space around it is uncertain.
C17_Witness ==
    /\ Normalized
    /\ raw.Status = Some(<<" ","?","?","?"," ">>)
    /\ a.dataQuality = "uncertain"

\* A status text that is present, not blank, and not a recognized data-status
\* value.
Unrecognized(status) ==
    /\ ~status.isNull
    /\ trim(status.str) # <<>>
    /\ ~HasOverriddenStem(toLowerCase(trim(status.str)))
    /\ trim(status.str) # Unknown

\* C18 as stated: a status text that is not a recognized data-status value
\* degrades to the uncertain data quality.
C18_UnrecognizedIsUncertain ==
    (Normalized /\ Unrecognized(raw.Status)) => (a.dataQuality = "uncertain")

\* C18 as amended: such a text degrades to the verified data quality.
C18_UnrecognizedIsVerified ==
    (Normalized /\ Unrecognized(raw.Status)) => (a.dataQuality = "verified")

C18_Witness ==
    /\ Normalized
    /\ raw.Status = Some(<<"c","h","e","c","k","e","d">>)
    /\ a.dataQuality = "verified"

\* The longer of the two arrays' lengths.
Longer == IF Len(raw.urls) >= Len(raw.documents) THEN Len(raw.urls) ELSE Len(raw.documents)

\* "Document n", n being the entry's index counted from 1.
DocumentTitle(n) == <<"D","o","c","u","m","e","n","t"," ">> \o ToDecimal(n)

\* C19: the legal-document list is as long as the longer of the titles and
\* URLs arrays; its i-th entry has the i-th title, or "Document i" (counting
\* from 1) when that title is missing (absent or empty), and the i-th URL, or
\* null when that URL is missing (absent, null or empty).
C19_LegalDocuments ==
    Normalized =>
        /\ Len(a.legalDocuments) = Longer
        /\ \A i \in DOMAIN a.legalDocuments :
               /\ a.legalDocuments[i].title
                      = IF i <= Len(raw.documents) /\ Len(raw.documents[i]) > 0
                        THEN raw.documents[i]
                        ELSE DocumentTitle(i)
               /\ a.legalDocuments[i].url
                      = IF i <= Len(raw.urls) /\ ~raw.urls[i].isNull
                              /\ Len(raw.urls[i].str) > 0
                        THEN raw.urls[i]
                        ELSE Null

\* Three URLs, one title: the second entry's title is synthesized.
C19_Witness ==
    /\ Normalized
    /\ Len(raw.urls) = 3
    /\ Len(raw.documents) = 1
    /\ Len(a.legalDocuments) = 3
    /\ a.legalDocuments[1] = [title |-> <<"t">>, url |-> Null]
    /\ a.legalDocuments[2]
           = [title |-> <<"D","o","c","u","m","e","n","t"," ","2">>, url |-> Some(<<"u">>)]

----------------------------------------------------------------------------
(* Properties of the ranking engine *)

\* C6: getTopSynergies(p, limit) is sorted by descending total score, has at
\* most limit entries, and holds neither p nor an incompatible entry.
C6_TopSynergies ==
    (pc = "ranked") =>
        /\ \A i \in 1..(Len(ranked) - 1) :
               ranked[i].synergy.score >= ranked[i + 1].synergy.score
        /\ Len(ranked) <= limit
        /\ \A i \in DOMAIN ranked :
               ranked[i].iso3 # primary.iso3 /\ ranked[i].synergy.compatible

\* Three compatible candidates cut to two, of different scores.
C6_Witness ==
    /\ pc = "ranked"
    /\ limit = 2
    /\ Len(ranked) = 2
    /\ ranked[1].synergy.score > ranked[2].synergy.score
    /\ \A i \in DOMAIN countries :
           (countries[i].iso3 # primary.iso3)
               => (countries[i].dualCitizenship = Allowed /\ primary.dualCitizenship = Allowed)

\* C15: getAllSynergies(p) has no entry keyed by p's ISO3 and has, for every
\* other registry country c, an entry keyed by c's ISO3 equal to
\* calculateSynergy(p, c); incompatible candidates are in it, with score 0 and
\* a reason.
C15_AllSynergies ==
    (pc = "mapped") =>
        /\ primary.iso3 \notin DOMAIN allSynergies
        /\ \A i \in DOMAIN countries :
               (countries[i].iso3 # primary.iso3) =>
                   /\ countries[i].iso3 \in DOMAIN allSynergies
                   /\ allSynergies[countries[i].iso3]
                          = calculateSynergy(primary, countries[i])
        /\ \A k \in DOMAIN allSynergies :
               ~allSynergies[k].compatible =>
                   /\ allSynergies[k].score = 0
                   /\ "reason" \in DOMAIN allSynergies[k]
                   /\ allSynergies[k].reason # <<>>

\* A registry with a compatible and an incompatible candidate: both are in.
C15_Witness ==
    /\ pc = "mapped"
    /\ Cardinality(DOMAIN allSynergies) = Len(countries) - 1
    /\ \E k \in DOMAIN allSynergies : allSynergies[k].compatible
    /\ \E k \in DOMAIN allSynergies :
           ~allSynergies[k].compatible /\ allSynergies[k].reason = ConditionalReason

----------------------------------------------------------------------------
(* Properties of the lookup *)

\* The four lookups, on the query with the white space at its ends removed;
\* the two codes are compared in upper case, the name in lower case.
HitIso3(c) == toUpperCase(c.iso3) = toUpperCase(trim(query))

HitIso2(c) == toUpperCase(c.iso2) = toUpperCase(trim(query))

HitName(c) == toLowerCase(c.name) = toLowerCase(trim(query))

HitNamePart(c) == includes(toLowerCase(c.name), toLowerCase(trim(query)))

Registered == { countries[i] : i \in DOMAIN countries }

\* C20: findCountry(query) tries exact ISO3 (ignoring case), exact ISO2, exact
\* lower-cased name, then substring of name in registry order, and returns the
\* first hit; it returns undefined exactly when none of the four matches, for
\* every query, the empty and the all-white-space query included.
C20_FindCountry ==
    (pc = "found") =>
        LET some3    == \E c \in Registered : HitIso3(c)
            some2    == \E c \in Registered : HitIso2(c)
            someName == \E c \in Registered : HitName(c)
            somePart == \E c \in Registered : HitNamePart(c)
        IN  /\ some3 => (found \in Registered /\ HitIso3(found))
            /\ (~some3 /\ some2) => (found \in Registered /\ HitIso2(found))
            /\ (~some3 /\ ~some2 /\ someName) =>
                   (found \in Registered /\ HitName(found))
            /\ (~some3 /\ ~some2 /\ ~someName /\ somePart) =>
                   \E i \in DOMAIN countries :
                       /\ found = countries[i]
                       /\ HitNamePart(countries[i])
                       /\ \A j \in 1..(i - 1) : ~HitNamePart(countries[j])
            /\ (found = Undefined) <=> ~(some3 \/ some2 \/ someName \/ somePart)

\* The query " B ": the second country, named "b", is returned although the
\* name of the first, "Ab", has "b" as a part.
C20_Witness ==
    /\ pc = "found"
    /\ query = <<" ","B"," ">>
    /\ Len(countries) >= 2
    /\ countries[1].name = <<"A","b">>
    /\ countries[2].name = <<"b">>
    /\ found = countries[2]

----------------------------------------------------------------------------
(* Properties of registry construction *)

Loaded == pc = "ready" \/ pc = "found"

\* C21: registry construction validates ISO3 uniqueness: a record whose ISO3
\* repeats an earlier one is rejected at load time and never silently
\* overwritten, so a lookup by ISO3 returns the entity the list of countries
\* holds for that key and no other.
C21_DuplicateIso3Rejected ==
    /\ Loaded =>
           \A i, j \in DOMAIN countries :
               (countries[i].iso3 = countries[j].iso3) => (i = j)
    /\ (pc = "found") =>
           \A i \in DOMAIN countries :
               (countries[i].iso3 = toUpperCase(trim(query))) => (found = countries[i])

----------------------------------------------------------------------------
(* Properties of the combined visa-access aggregator *)

LowerNames(list) == { toLowerCase(list[i]) : i \in DOMAIN list }

\* The destinations earlier passports of the selection cover, lower-cased.
TotalBefore(i) ==
    UNION { LowerNames(passports[j].visaFreeAccess) : j \in 1..(i - 1) }

\* The entries of list at the positions that satisfy Keep, in order.
AtPositions(list, keep) ==
    LET idx == SelectSeq([k \in DOMAIN list |-> k], LAMBDA k : k \in keep)
    IN  [n \in DOMAIN idx |-> list[idx[n]]]

\* C7: the empty selection gives an empty total and an empty newlyUnlocked; a
\* selection of one country A gives newlyUnlocked[A.iso3] = A.visaFreeAccess,
\* element for element, and a total of A's destinations lower-cased.
C7_EmptyAndSingle ==
    (pc = "combined") =>
        /\ (passports = <<>>) =>
               (combined.total = {} /\ DOMAIN combined.newlyUnlocked = {})
        /\ (Len(passports) = 1) =>
               /\ combined.newlyUnlocked[passports[1].iso3] = passports[1].visaFreeAccess
               /\ combined.total = LowerNames(passports[1].visaFreeAccess)

\* One passport whose list repeats a destination in another case.
C7_Witness ==
    /\ pc = "combined"
    /\ Len(passports) = 1
    /\ Len(passports[1].visaFreeAccess) = 3
    /\ Cardinality(combined.total) = 2
    /\ combined.newlyUnlocked[passports[1].iso3] = passports[1].visaFreeAccess

SubsetCase ==
    (Len(passports) = 2
        /\ Range(passports[2].visaFreeAccess) \subseteq Range(passports[1].visaFreeAccess))
        => (combined.newlyUnlocked[passports[2].iso3] = <<>>)

\* C8: each country after the first is credited in newlyUnlocked with exactly
\* those of its destinations that are not, ignoring case, in total when the
\* country is processed (each once, as first listed, in the list's order), and
\* afterwards all its destinations are in total; a second country whose
\* destinations are a subset of the first's is credited with none.
C8_CreditedWithNewDestinations ==
    (pc = "combined") =>
        /\ \A i \in 2..Len(passports) :
               LET list     == passports[i].visaFreeAccess
                   credited == combined.newlyUnlocked[passports[i].iso3]
               IN  /\ LowerNames(credited) = LowerNames(list) \ TotalBefore(i)
                   /\ credited
                          = AtPositions(list,
                                { k \in DOMAIN list :
                                    /\ toLowerCase(list[k]) \notin TotalBefore(i)
                                    /\ \A j \in 1..(k - 1) :
                                           toLowerCase(list[j]) # toLowerCase(list[k]) })
                   /\ LowerNames(list) \subseteq combined.total
        /\ SubsetCase

\* A second passport with a destination the first covers and one, listed twice,
\* that it does not.
C8_Witness ==
    /\ pc = "combined"
    /\ Len(passports) = 2
    /\ passports[1].visaFreeAccess = << <<"z">> >>
    /\ passports[2].visaFreeAccess = << <<"X">>, <<"x">>, <<"z">> >>
    /\ combined.newlyUnlocked[passports[2].iso3] = << <<"X">> >>

\* The orderings of a selection of distinct countries.
Orderings(s) ==
    { t \in [DOMAIN s -> Range(s)] : \A i, j \in DOMAIN s : (i # j) => (t[i] # t[j]) }

\* C9: every ordering of the selection gives the same total (the attribution
\* in newlyUnlocked may differ between orderings).
C9_TotalIsOrderInvariant ==
    (pc = "combined") =>
        \A t \in Orderings(passports) : getCombinedVisaAccess(t).total = combined.total

\* Two orderings with the same total and different attributions.
C9_Witness ==
    /\ pc = "combined"
    /\ \E t \in Orderings(passports) :
           /\ getCombinedVisaAccess(t).total = combined.total
           /\ getCombinedVisaAccess(t).newlyUnlocked # combined.newlyUnlocked

----------------------------------------------------------------------------
(* Properties of the application store *)

\* C25: the registry is read-only after construction: no step of the store,
\* with the calls of getAllSynergies, getTopSynergies and getCombinedVisaAccess
\* it makes, changes the registry's sequence of countries or a field of one.
C25_RegistryReadOnly == [][countries' = countries]_vars

C25_Witness ==
    /\ pc = "removed"
    /\ Len(selectedPassports) = 2
    /\ Len(topSynergies) = TopLimit
    /\ countries = StoreRegistry

EmptyVisaAccess == [total |-> {}, newlyUnlocked |-> EmptyMap]

\* C26: the stored views follow the selection: with a non-empty selection,
\* synergies is getAllSynergies of the first passport, topSynergies is
\* getTopSynergies of the first passport with limit 10 and combinedVisaAccess
\* holds the total and newlyUnlocked of getCombinedVisaAccess of the selection;
\* with an empty selection all three are empty.
C26_ViewsFollowSelection ==
    IF selectedPassports = <<>>
    THEN /\ synergies = EmptyMap
         /\ topSynergies = <<>>
         /\ combinedVisaAccess = EmptyVisaAccess
    ELSE /\ synergies = getAllSynergies(countries, selectedPassports[1])
         /\ topSynergies = getTopSynergies(countries, selectedPassports[1], 10)
         /\ combinedVisaAccess.total = getCombinedVisaAccess(selectedPassports).total
         /\ combinedVisaAccess.newlyUnlocked
                = getCombinedVisaAccess(selectedPassports).newlyUnlocked

C26_Witness ==
    /\ pc = "removed"
    /\ Len(selectedPassports) = 1
    /\ selectedPassports[1].iso3 = IsoCode(2)
    /\ Len(topSynergies) = 10
    /\ combinedVisaAccess.total = { <<"x">>, <<"z">> }

\* C27: the selection holds at most 3 passports, no two with the same ISO3.
C27_AtMostThreeDistinct ==
    /\ Len(selectedPassports) <= 3
    /\ DistinctIso3(selectedPassports)

C27_Witness ==
    /\ pc = "rejected"
    /\ Len(selectedPassports) = 3
    /\ showInfoPanel

\* A call of selectCountry that the store rejects: the country's ISO3 is
\* selected already, or 3 passports are held.
RejectedSelect ==
    \E country \in SelectInputs :
        /\ someIso3(selectedPassports, country.iso3) \/ Len(selectedPassports) >= 3
        /\ selectCountry(country)

\* C28: a rejected selectCountry leaves every field of the store as it was.
C28_RejectedSelectChangesNothing ==
    [][(RejectedSelect \/ pc' = "rejected") =>
           /\ selectedPassports' = selectedPassports
           /\ synergies' = synergies
           /\ topSynergies' = topSynergies
           /\ combinedVisaAccess' = combinedVisaAccess
           /\ showInfoPanel' = showInfoPanel
           /\ hoveredCountry' = hoveredCountry]_vars

C28_Witness ==
    /\ pc = "rejected"
    /\ Len(selectedPassports) = 1
    /\ ~showInfoPanel
    /\ hoveredCountry = countries[2]

\* The passports of old that new still holds, in old's order.
StillHeld(old, new) == SelectSeq(old, LAMBDA c : someIso3(new, c.iso3))

\* C29: a selection appends at the end, a removal keeps the remaining
\* passports in their order, so the first passport is the earliest selected
\* one still held; when a removal takes the first passport and another
\* remains, the next one is first and synergies and topSynergies are those of
\* that passport in the same step.
C29_PrimaryIsEarliestHeld ==
    [][/\ pc' = "selected" =>
              /\ Len(selectedPassports') = Len(selectedPassports) + 1
              /\ SubSeq(selectedPassports', 1, Len(selectedPassports)) = selectedPassports
              /\ selectedPassports # <<>> => selectedPassports'[1] = selectedPassports[1]
       /\ pc' = "removed" =>
              /\ selectedPassports' = StillHeld(selectedPassports, selectedPassports')
              /\ (selectedPassports' # <<>>
                     /\ selectedPassports'[1].iso3 # selectedPassports[1].iso3) =>
                     /\ selectedPassports'[1] = selectedPassports[2]
                     /\ synergies' = getAllSynergies(countries', selectedPassports[2])
                     /\ topSynergies'
                            = getTopSynergies(countries', selectedPassports[2], 10)]_vars

C29_Witness ==
    /\ pc = "removed"
    /\ Len(selectedPassports) = 2
    /\ selectedPassports[1].iso3 = IsoCode(2)
    /\ selectedPassports[2].iso3 = IsoCode(3)
    /\ synergies = getAllSynergies(countries, countries[2])

====
